---- MODULE Spec2Model ----
(***************************************************************************)
(* A model of the GameClient class of src/game.js: the player registry     *)
(* fed by inbound protocol messages, the clamped viewport, the per-peer    *)
(* proximity state machine run by every draw, and the keyboard movement    *)
(* controller with its retransmission timer.                               *)
(*                                                                         *)
(* Every handler runs to completion (the browser is single threaded), so   *)
(* one action models one whole handler, the draw() it ends with included.  *)
(***************************************************************************)
EXTENDS Integers, FiniteSets, Sequences, Bags, TLC

VARIABLES
    worldWidth,             \* this.worldWidth
    worldHeight,            \* this.worldHeight
    canvas,                 \* this.canvas.width / this.canvas.height
    playerId,               \* this.playerId (NoId models null)
    playerPosition,         \* this.playerPosition
    players,                \* this.players : Map id -> player record
    avatars,                \* this.avatars : Map name -> avatar definition
    viewport,               \* this.viewport
    socket,                 \* this.socket.readyState
    activeKeys,             \* this.activeKeys : Set of key codes
    isMoving,               \* this.isMoving
    movementInterval,       \* this.movementInterval (NoTimer models null)
    timers,                 \* the intervals the browser has scheduled: handle -> direction
    greetedPlayers,         \* this.greetedPlayers
    playerProximityState,   \* this.playerProximityState : Map id -> "near" | "far"
    \* ---- history variables (not program state) ----
    emitted,                \* bag of <<kind, id>>: askPlayerToGreet / askPlayerToSayGoodbye calls of the last step
    commands,               \* sequence of sendMoveCommand calls of the last step
    lastEvent,              \* the keyboard or timer event the last step handled
    lastDirection,          \* the argument of the latest sendMoveCommand call
    prevDirection,          \* lastDirection before the last step
    sent,                   \* bag of messages the last step passed to socket.send
    lifeGreets,             \* id -> Greets emitted for id since it last departed
    lifeFarewells,          \* id -> Farewells emitted for id since it last departed
    entered,                \* id -> a far->near transition was evaluated since it last departed
    scen,                   \* stage of the section-8 scenario reached by the last steps
    scenLog                 \* the events emitted for ScenPeer along the scenario

vars == <<worldWidth, worldHeight, canvas, playerId, playerPosition, players,
          avatars, viewport, socket, activeKeys, isMoving, movementInterval, timers,
          greetedPlayers, playerProximityState,
          emitted, commands, lastEvent, lastDirection, prevDirection, sent, lifeGreets, lifeFarewells, entered,
          scen, scenLog>>

worldVars == <<worldWidth, worldHeight, canvas, playerId, playerPosition, players,
               avatars, viewport, greetedPlayers, playerProximityState>>

inputVars == <<activeKeys, isMoving, movementInterval, timers>>

lifeVars == <<lifeGreets, lifeFarewells, entered, scen, scenLog>>

-----------------------------------------------------------------------------
(* Program constants *)

WorldSize == 2048
proximityThreshold == 100

(* Bounds of the model *)

\* the largest number of player records one inbound message carries
MaxBatch == 2
\* Farewells counted per peer lifetime; a handler that would emit one more is not taken
MaxFarewells == 2

NoId == "null"
NoTimer == 0
NoEvent == [type |-> "none", code |-> "none"]
Ids == {"p1", "p2", "p3"}

Pt(x, y) == [x |-> x, y |-> y]

\* The positions the server reports for each id.  Seen from Base, where the
\* local player p1 starts, p2 is at distance 80, 90, 100 (dx 60, dy 80), 120
\* or 150 and p3 at 76 or 101; x = 2080 and beyond is outside the world.
Base == Pt(2000, 1024)
Places(id) ==
    IF id = "p1" THEN {Base, Pt(2150, 1024)}
    ELSE IF id = "p2" THEN {Pt(2080, 1024), Pt(2090, 1024), Pt(2060, 1104),
                            Pt(2120, 1024), Pt(2150, 1024)}
    ELSE {Pt(2000, 1100), Pt(2000, 1125)}

\* the id the server assigns to this client
LocalIds == {"p1"}

\* window.innerWidth x window.innerHeight (even, so that width / 2 is integral)
CanvasSizes == {[width |-> 800, height |-> 600], [width |-> 1000, height |-> 800]}

Max(a, b) == IF a >= b THEN a ELSE b
Min(a, b) == IF a <= b THEN a ELSE b

-----------------------------------------------------------------------------
(* Viewport *)

\* updateViewport's clamp with the two bounds applied in the other order
ClampAxisUpperWins(pos, view, world) == Min(Max(0, pos - (view \div 2)), world - view)

\* updateViewport, one axis: Math.max(0, Math.min(center, world - view))
ClampAxis(pos, view, world) == Max(0, Min(pos - (view \div 2), world - view))

updateViewport(pos, cv, ww, wh) ==
    [x |-> ClampAxis(pos.x, cv.width, ww), y |-> ClampAxis(pos.y, cv.height, wh)]

-----------------------------------------------------------------------------
(* Proximity *)

\* dx * dx + dy * dy of calculateDistance; Math.sqrt is monotone and exact on
\* perfect squares, so  sqrt(d2) <= threshold  iff  d2 <= threshold^2
SquaredDistance(p1, p2) ==
    LET dx == p1.x - p2.x
        dy == p1.y - p2.y
    IN  dx * dx + dy * dy

\* the comparison of checkProximityGreetings written distance < threshold
IsNearExclusive(p1, p2) ==
    SquaredDistance(p1, p2) < proximityThreshold * proximityThreshold

IsNear(p1, p2) == SquaredDistance(p1, p2) <= proximityThreshold * proximityThreshold

\* playerProximityState.get(id) || 'far'
StateOf(px, id) == IF id \in DOMAIN px THEN px[id] ELSE "far"

\* ProximityStep greeting on every far->near transition (the greeted test dropped)
ProximityStepRegreets(isNear, currentState, hasGreeted) ==
    IF isNear /\ currentState = "far"
    THEN [event |-> "Greet", state |-> "near", greeted |-> TRUE]
    ELSE IF ~isNear /\ currentState = "near"
    THEN [event |-> "Farewell", state |-> "far", greeted |-> hasGreeted]
    ELSE IF isNear
    THEN [event |-> "None", state |-> "near", greeted |-> hasGreeted]
    ELSE [event |-> "None", state |-> "far", greeted |-> hasGreeted]

\* ProximityStep without the Farewell branch
ProximityStepSilentExit(isNear, currentState, hasGreeted) ==
    IF isNear /\ currentState = "far" /\ ~hasGreeted
    THEN [event |-> "Greet", state |-> "near", greeted |-> TRUE]
    ELSE IF isNear
    THEN [event |-> "None", state |-> "near", greeted |-> hasGreeted]
    ELSE [event |-> "None", state |-> "far", greeted |-> hasGreeted]

\* ProximityStep whose Farewell branch forgets to store 'far'
ProximityStepStaysNear(isNear, currentState, hasGreeted) ==
    IF isNear /\ currentState = "far" /\ ~hasGreeted
    THEN [event |-> "Greet", state |-> "near", greeted |-> TRUE]
    ELSE IF ~isNear /\ currentState = "near"
    THEN [event |-> "Farewell", state |-> "near", greeted |-> hasGreeted]
    ELSE IF isNear
    THEN [event |-> "None", state |-> "near", greeted |-> hasGreeted]
    ELSE [event |-> "None", state |-> "far", greeted |-> hasGreeted]

\* The body of the loop of checkProximityGreetings for one peer.
ProximityStep(isNear, currentState, hasGreeted) ==
    IF isNear /\ currentState = "far" /\ ~hasGreeted
    THEN [event |-> "Greet", state |-> "near", greeted |-> TRUE]
    ELSE IF ~isNear /\ currentState = "near"
    THEN [event |-> "Farewell", state |-> "far", greeted |-> hasGreeted]
    ELSE IF isNear
    THEN [event |-> "None", state |-> "near", greeted |-> hasGreeted]
    ELSE [event |-> "None", state |-> "far", greeted |-> hasGreeted]

\* checkProximityGreetings: the peers are handled independently of each other,
\* so the iteration order of the Map only orders the calls within one tick;
\* the calls are kept as a bag.
checkProximityGreetings(pid, pl, gr, px) ==
    IF pid = NoId \/ pid \notin DOMAIN pl
    THEN [greetedPlayers |-> gr, playerProximityState |-> px, emitted |-> EmptyBag]
    ELSE LET peers == DOMAIN pl \ {pid}
             step(p) == ProximityStep(IsNear(pl[pid], pl[p]), StateOf(px, p), p \in gr)
         IN  [greetedPlayers |-> (gr \ peers) \cup {p \in peers : step(p).greeted},
              playerProximityState |->
                  [p \in DOMAIN px \cup peers |->
                      IF p \in peers THEN step(p).state ELSE px[p]],
              emitted |->
                  SetToBag({<<step(p).event, p>> : p \in {q \in peers : step(q).event # "None"}})]

\* draw(): this.worldImage is assigned by loadWorldMap() during construction,
\* so the early return never triggers; what remains of draw() for the state is
\* the call of checkProximityGreetings().
draw(pid, pl, gr, px) == checkProximityGreetings(pid, pl, gr, px)

\* askPlayerToGreet / askPlayerToSayGoodbye: the chat texts passed to
\* socket.send for a bag of calls; nothing is sent unless the socket is OPEN.
GreetText == "hii! nice to meet you Roger"
ByeText == "bye Roger!"
ChatText(kind) == IF kind = "Greet" THEN GreetText ELSE ByeText
CountKind(E, kind) ==
    LET hits == {e \in BagToSet(E) : e[1] = kind}
        RECURSIVE Sum(_)
        Sum(S) == IF S = {} THEN 0
                  ELSE LET e == CHOOSE x \in S : TRUE IN CopiesIn(e, E) + Sum(S \ {e})
    IN  Sum(hits)
\* askPlayerToGreet / askPlayerToSayGoodbye without the readyState test
askPlayersUnguarded(E, readyState) ==
    [m \in {<<"chat", ChatText(k)>> : k \in {j \in {"Greet", "Farewell"} : CountKind(E, j) > 0}}
        |-> CountKind(E, IF m[2] = GreetText THEN "Greet" ELSE "Farewell")]

askPlayers(E, readyState) ==
    IF readyState # "OPEN" THEN EmptyBag
    ELSE [m \in {<<"chat", ChatText(k)>> : k \in {j \in {"Greet", "Farewell"} : CountKind(E, j) > 0}}
             |-> CountKind(E, IF m[2] = GreetText THEN "Greet" ELSE "Farewell")]

-----------------------------------------------------------------------------
(* Inbound messages *)

\* Map.set for every entry of a message's players object
SetAll(pl, entries) ==
    [id \in DOMAIN pl \cup DOMAIN entries |->
        IF id \in DOMAIN entries THEN entries[id] ELSE pl[id]]

\* Map.delete
Delete(m, id) == [k \in DOMAIN m \ {id} |-> m[k]]

\* The state the handlers work on, as one record.
World(pl, av, pid, pos, vp, gr, px) ==
    [players |-> pl, avatars |-> av, playerId |-> pid, playerPosition |-> pos,
     viewport |-> vp, greetedPlayers |-> gr, playerProximityState |-> px,
     emitted |-> EmptyBag]

Drawn(w) ==
    LET t == draw(w.playerId, w.players, w.greetedPlayers, w.playerProximityState)
    IN  [w EXCEPT !.greetedPlayers = t.greetedPlayers,
                  !.playerProximityState = t.playerProximityState,
                  !.emitted = t.emitted]

\* A field the message lacks reads as undefined: Object.entries(undefined) and
\* undefined.name throw a TypeError, which leaves the handler at that statement
\* with the assignments made so far in place; onmessage catches and logs it.
Has(msg, field) == field \in DOMAIN msg

\* handleJoinGame, message.success true
handleJoinGame(w, msg, cv, ww, wh) ==
    LET pid == msg.playerId
        w1 == [w EXCEPT !.playerId = pid]
        pl == SetAll(w.players, msg.players)
        w2 == [w1 EXCEPT !.players = pl]
        w3 == [w2 EXCEPT !.avatars = SetAll(w.avatars, msg.avatars)]
        ours == pid \in DOMAIN pl
        pos == IF ours THEN Pt(pl[pid].x, pl[pid].y) ELSE w.playerPosition
        vp == IF ours THEN updateViewport(pos, cv, ww, wh) ELSE w.viewport
    IN  IF ~Has(msg, "players") THEN w1
        ELSE IF ~Has(msg, "avatars") THEN w2
        ELSE Drawn([w3 EXCEPT !.playerPosition = pos, !.viewport = vp])

\* handlePlayersMoved without the test playerId === this.playerId: the position
\* and the viewport follow a player of the message, whoever it is
handlePlayersMovedFollowsAny(w, msg, cv, ww, wh) ==
    LET pl == SetAll(w.players, msg.players)
        any == DOMAIN msg.players # {}
        who == CHOOSE id \in DOMAIN msg.players : TRUE
        pos == IF any THEN Pt(msg.players[who].x, msg.players[who].y) ELSE w.playerPosition
        vp == IF any THEN updateViewport(pos, cv, ww, wh) ELSE w.viewport
    IN  IF ~Has(msg, "players") THEN w
        ELSE Drawn([w EXCEPT !.players = pl, !.playerPosition = pos, !.viewport = vp])

\* handlePlayersMoved
handlePlayersMoved(w, msg, cv, ww, wh) ==
    LET pl == SetAll(w.players, msg.players)
        us == w.playerId \in DOMAIN msg.players
        pos == IF us THEN Pt(msg.players[w.playerId].x, msg.players[w.playerId].y)
               ELSE w.playerPosition
        vp == IF us THEN updateViewport(pos, cv, ww, wh) ELSE w.viewport
    IN  IF ~Has(msg, "players") THEN w
        ELSE Drawn([w EXCEPT !.players = pl, !.playerPosition = pos, !.viewport = vp])

\* handlePlayerJoined
handlePlayerJoined(w, msg) ==
    LET w1 == [w EXCEPT !.players =
                  SetAll(w.players, msg.player.id :> Pt(msg.player.x, msg.player.y))]
    IN  IF ~Has(msg, "player") THEN w
        ELSE IF ~Has(msg, "avatar") THEN w1
        ELSE Drawn([w1 EXCEPT !.avatars =
                        SetAll(w.avatars, msg.avatar.name :> msg.avatar)])

\* handlePlayerLeft without playerProximityState.delete
handlePlayerLeftKeepsState(w, msg) ==
    Drawn([w EXCEPT !.players = Delete(w.players, msg.playerId),
                    !.greetedPlayers = w.greetedPlayers \ {msg.playerId}])

\* handlePlayerLeft without greetedPlayers.delete
handlePlayerLeftKeepsGreeted(w, msg) ==
    Drawn([w EXCEPT !.players = Delete(w.players, msg.playerId),
                    !.playerProximityState = Delete(w.playerProximityState, msg.playerId)])

\* handlePlayerLeft saying goodbye for a peer that departs while near
handlePlayerLeftSaysGoodbye(w, msg) ==
    LET w1 == Drawn([w EXCEPT !.players = Delete(w.players, msg.playerId),
                              !.greetedPlayers = w.greetedPlayers \ {msg.playerId},
                              !.playerProximityState =
                                  Delete(w.playerProximityState, msg.playerId)])
    IN  IF StateOf(w.playerProximityState, msg.playerId) = "near"
        THEN [w1 EXCEPT !.emitted = w1.emitted (+) SetToBag({<<"Farewell", msg.playerId>>})]
        ELSE w1

\* handlePlayerLeft
handlePlayerLeft(w, msg) ==
    Drawn([w EXCEPT !.players = Delete(w.players, msg.playerId),
                    !.greetedPlayers = w.greetedPlayers \ {msg.playerId},
                    !.playerProximityState = Delete(w.playerProximityState, msg.playerId)])

-----------------------------------------------------------------------------
(* The messages and events the environment produces *)

EmptyMap == [k \in {} |-> k]

\* the players object of a join_game or players_moved message
Rosters ==
    UNION {{f \in [S -> UNION {Places(i) : i \in S}] : \A i \in S : f[i] \in Places(i)} :
              S \in {T \in SUBSET Ids : Cardinality(T) <= MaxBatch}}

\* Avatar definitions.  The messages that move the players around all carry
\* the one definition BaseAvatar; the messages of SpecAvatars below describe
\* two names in two ways each.
AvatarNames == {"a1", "a2"}
AvatarFrames == {"f1", "f2"}
Avatars == [name : AvatarNames, frames : AvatarFrames]
BaseAvatar == [name |-> "a1", frames |-> "f1"]
\* the avatars object of a join_game message: name -> definition
AvatarSets ==
    UNION {{f \in [S -> Avatars] : \A n \in S : f[n].name = n} : S \in SUBSET AvatarNames}

JoinGameMsgs ==
    [success : {TRUE}, playerId : LocalIds, players : Rosters,
     avatars : {BaseAvatar.name :> BaseAvatar}]
PlayersMovedMsgs == [players : Rosters]
JoiningPlayers ==
    UNION {{[id |-> i, x |-> p.x, y |-> p.y] : p \in Places(i)} : i \in Ids}
PlayerJoinedMsgs == [player : JoiningPlayers, avatar : {BaseAvatar}]
PlayerLeftMsgs == [playerId : Ids]

-----------------------------------------------------------------------------
(* History: what the claims speak about *)

\* the peers the loop of checkProximityGreetings visits
PeersAtTick(pid, pl) == IF pid = NoId \/ pid \notin DOMAIN pl THEN {} ELSE DOMAIN pl \ {pid}

\* a tick over registry pl finds peer p near while its persisted state px is far
FarToNear(p, pid, pl, px) ==
    /\ p \in PeersAtTick(pid, pl)
    /\ StateOf(px, p) = "far"
    /\ IsNear(pl[pid], pl[p])

\* a tick over registry pl finds peer p far while its persisted state px is near
NearToFar(p, pid, pl, px) ==
    /\ p \in PeersAtTick(pid, pl)
    /\ StateOf(px, p) = "near"
    /\ ~IsNear(pl[pid], pl[p])

\* The scenario of section 8 of the specification, followed for one pair:
\* ScenPeer at distance 150 of ScenLocal and not yet met (stage 1), then at
\* 90 (2), 120 (3), 80 (4), departed (5), back in range (6).
ScenLocal == "p1"
ScenPeer == "p2"
ScenDistance(pid, pl, d) ==
    /\ pid = ScenLocal
    /\ {ScenLocal, ScenPeer} \subseteq DOMAIN pl
    /\ SquaredDistance(pl[ScenLocal], pl[ScenPeer]) = d * d
ScenNext(op, id, pid, pl) ==
    IF scen = 1 /\ ScenDistance(pid, pl, 90) THEN 2
    ELSE IF scen = 2 /\ ScenDistance(pid, pl, 120) THEN 3
    ELSE IF scen = 3 /\ ScenDistance(pid, pl, 80) THEN 4
    ELSE IF scen = 4 /\ op = "player_left" /\ id = ScenPeer THEN 5
    ELSE IF scen = 5 /\ pid = ScenLocal /\ {ScenLocal, ScenPeer} \subseteq DOMAIN pl
                     /\ IsNear(pl[ScenLocal], pl[ScenPeer]) THEN 6
    ELSE IF /\ ScenDistance(pid, pl, 150)
            /\ ~entered[ScenPeer] /\ lifeGreets[ScenPeer] = 0 /\ lifeFarewells[ScenPeer] = 0
         THEN 1
    ELSE 0
ScenEvents(E) ==
    IF CopiesIn(<<"Greet", ScenPeer>>, E) > 0 THEN <<"Greet">>
    ELSE IF CopiesIn(<<"Farewell", ScenPeer>>, E) > 0 THEN <<"Farewell">>
    ELSE <<>>

\* A step that handles no keyboard or timer event.
NoInput ==
    /\ lastEvent' = NoEvent
    /\ prevDirection' = lastDirection
    /\ UNCHANGED lastDirection

\* The state the handlers start from.
Now ==
    World(players, avatars, playerId, playerPosition, viewport, greetedPlayers,
          playerProximityState)

\* A handler that ends in draw(), taking the state to w2 and the canvas to cv2;
\* gone holds the id a player_left removes.
WorldStep(op, id, gone, w2, cv2) ==
    /\ canvas' = cv2
    /\ players' = w2.players
    /\ avatars' = w2.avatars
    /\ playerId' = w2.playerId
    /\ playerPosition' = w2.playerPosition
    /\ viewport' = w2.viewport
    /\ greetedPlayers' = w2.greetedPlayers
    /\ playerProximityState' = w2.playerProximityState
    /\ emitted' = w2.emitted
    /\ sent' = askPlayers(w2.emitted, socket)
    /\ commands' = <<>>
    /\ lifeGreets' = [p \in Ids |->
           (IF p \in gone THEN 0 ELSE lifeGreets[p]) + CopiesIn(<<"Greet", p>>, w2.emitted)]
    /\ lifeFarewells' = [p \in Ids |->
           (IF p \in gone THEN 0 ELSE lifeFarewells[p]) + CopiesIn(<<"Farewell", p>>, w2.emitted)]
    /\ \A p \in Ids : lifeFarewells'[p] <= MaxFarewells
    /\ entered' = [p \in Ids |->
           \/ p \notin gone /\ entered[p]
           \/ FarToNear(p, w2.playerId, w2.players, playerProximityState)]
    /\ scen' = ScenNext(op, id, w2.playerId, w2.players)
    /\ scenLog' = IF scen' <= 1 THEN <<>> ELSE scenLog \o ScenEvents(w2.emitted)
    /\ NoInput
    /\ UNCHANGED <<worldWidth, worldHeight, socket, inputVars>>

\* A handler that an exception ends before its draw(): the state is left as
\* w2, nothing is emitted or sent.
ThrownStep(w2) ==
    /\ players' = w2.players
    /\ avatars' = w2.avatars
    /\ playerId' = w2.playerId
    /\ playerPosition' = w2.playerPosition
    /\ viewport' = w2.viewport
    /\ greetedPlayers' = w2.greetedPlayers
    /\ playerProximityState' = w2.playerProximityState
    /\ emitted' = EmptyBag
    /\ sent' = EmptyBag
    /\ commands' = <<>>
    /\ NoInput
    /\ UNCHANGED <<worldWidth, worldHeight, canvas, socket, inputVars, lifeVars>>

\* A step that runs no handler of the registry.
Quiet ==
    /\ emitted' = EmptyBag
    /\ UNCHANGED lifeVars

-----------------------------------------------------------------------------
(* The initial state: the constructor and init() *)


Init ==
    /\ worldWidth = WorldSize
    /\ worldHeight = WorldSize
    /\ canvas \in CanvasSizes
    /\ playerId = NoId
    /\ playerPosition = Pt(0, 0)
    /\ players = EmptyMap
    /\ avatars = EmptyMap
    /\ viewport = Pt(0, 0)
    /\ socket = "CONNECTING"
    /\ activeKeys = {}
    /\ isMoving = FALSE
    /\ movementInterval = NoTimer
    /\ timers = EmptyMap
    /\ greetedPlayers = {}
    /\ playerProximityState = EmptyMap
    /\ emitted = EmptyBag
    /\ commands = <<>>
    /\ lastEvent = NoEvent
    /\ lastDirection = "none"
    /\ prevDirection = "none"
    /\ sent = EmptyBag
    /\ lifeGreets = [p \in Ids |-> 0]
    /\ lifeFarewells = [p \in Ids |-> 0]
    /\ entered = [p \in Ids |-> FALSE]
    /\ scen = 0
    /\ scenLog = <<>>

-----------------------------------------------------------------------------
(* The socket *)

\* socket.onopen: joinGame() sends the join request
SocketOpen ==
    /\ socket = "CONNECTING"
    /\ socket' = "OPEN"
    /\ sent' = SetToBag({<<"join_game", "Roger">>})
    /\ commands' = <<>>
    /\ Quiet
    /\ NoInput
    /\ UNCHANGED <<worldVars, inputVars>>

\* socket.onclose
SocketClose ==
    /\ socket \in {"CONNECTING", "OPEN"}
    /\ socket' = "CLOSED"
    /\ sent' = EmptyBag
    /\ commands' = <<>>
    /\ Quiet
    /\ NoInput
    /\ UNCHANGED <<worldVars, inputVars>>

-----------------------------------------------------------------------------
(* socket.onmessage -> handleMessage: delivered only while the socket is OPEN *)

\* The server answers the one join request of joinGame(): a successful
\* join_game arrives while no identity is assigned yet.
RecvJoinGame(msg) ==
    /\ socket = "OPEN"
    /\ playerId = NoId
    /\ WorldStep("join_game", NoId, {},
                 handleJoinGame(Now, msg, canvas, worldWidth, worldHeight), canvas)

JoinGame == \E msg \in JoinGameMsgs : RecvJoinGame(msg)

\* handleJoinGame, message.success false: console.error only
JoinGameFailed ==
    /\ socket = "OPEN"
    /\ playerId = NoId
    /\ sent' = EmptyBag
    /\ commands' = <<>>
    /\ Quiet
    /\ NoInput
    /\ UNCHANGED <<worldVars, socket, inputVars>>

RecvPlayersMoved(msg) ==
    /\ socket = "OPEN"
    /\ WorldStep("players_moved", NoId, {},
                 handlePlayersMoved(Now, msg, canvas, worldWidth, worldHeight), canvas)

PlayersMoved == \E msg \in PlayersMovedMsgs : RecvPlayersMoved(msg)

RecvPlayerJoined(msg) ==
    /\ socket = "OPEN"
    /\ WorldStep("player_joined", msg.player.id, {}, handlePlayerJoined(Now, msg), canvas)

PlayerJoined == \E msg \in PlayerJoinedMsgs : RecvPlayerJoined(msg)

RecvPlayerLeft(msg) ==
    /\ socket = "OPEN"
    /\ WorldStep("player_left", msg.playerId, {msg.playerId},
                 handlePlayerLeft(Now, msg), canvas)

PlayerLeft == \E msg \in PlayerLeftMsgs : RecvPlayerLeft(msg)

\* the window's resize listener of setupCanvas
Resize ==
    \E cv \in CanvasSizes :
        /\ cv # canvas
        /\ WorldStep("resize", NoId, {}, Drawn(Now), cv)

\* worldImage.onload
WorldImageLoaded == WorldStep("onload", NoId, {}, Drawn(Now), canvas)

Next ==
    \/ SocketOpen
    \/ SocketClose
    \/ JoinGame
    \/ JoinGameFailed
    \/ PlayersMoved
    \/ PlayerJoined
    \/ PlayerLeft
    \/ Resize
    \/ WorldImageLoaded

Spec == Init /\ [][Next]_vars

\* a step of Spec that does not end in draw()
QuietStep == SocketOpen \/ SocketClose \/ JoinGameFailed

Greets(E, p) == CopiesIn(<<"Greet", p>>, E)
Farewells(E, p) == CopiesIn(<<"Farewell", p>>, E)

-----------------------------------------------------------------------------
(* The client with a server that also sends messages the handlers cannot    *)
(* read.  The well-formed messages of this specification keep the local     *)
(* player at Base and p2 at distance 80 or 150 of it.                        *)

FaultPlaces(id) ==
    IF id = "p1" THEN {Base}
    ELSE IF id = "p2" THEN {Pt(2080, 1024), Pt(2150, 1024)}
    ELSE {}
FaultRosters ==
    UNION {{f \in [S -> UNION {FaultPlaces(i) : i \in S}] :
                \A i \in S : f[i] \in FaultPlaces(i)} : S \in SUBSET {"p1", "p2"}}
FaultJoiners ==
    UNION {{[id |-> i, x |-> p.x, y |-> p.y] : p \in FaultPlaces(i)} : i \in Ids}

\* Messages that parse but lack a field their handler reads: a join_game
\* without players or without avatars, a players_moved without players, a
\* player_joined without avatar or without player.
MalformedJoinGameMsgs ==
    [success : {TRUE}, playerId : LocalIds] \cup
    [success : {TRUE}, playerId : LocalIds, players : FaultRosters]
MalformedPlayersMovedMsgs == {[action |-> "players_moved"]}
MalformedPlayerJoinedMsgs == [player : FaultJoiners] \cup [avatar : {BaseAvatar}]


\* onmessage: JSON.parse throws, the catch logs the error
UnparsableMessage ==
    /\ socket = "OPEN"
    /\ ThrownStep(Now)

\* a successful join_game without players, or with players and without avatars
JoinGameMalformed ==
    \E msg \in MalformedJoinGameMsgs :
        /\ socket = "OPEN"
        /\ playerId = NoId
        /\ ThrownStep(handleJoinGame(Now, msg, canvas, worldWidth, worldHeight))

\* a players_moved without players
PlayersMovedMalformed ==
    \E msg \in MalformedPlayersMovedMsgs :
        /\ socket = "OPEN"
        /\ ThrownStep(handlePlayersMoved(Now, msg, canvas, worldWidth, worldHeight))

\* a player_joined without avatar, or without player
PlayerJoinedMalformed ==
    \E msg \in MalformedPlayerJoinedMsgs :
        /\ socket = "OPEN"
        /\ ThrownStep(handlePlayerJoined(Now, msg))

\* the well-formed messages
JoinGameAtBase ==
    \E msg \in [success : {TRUE}, playerId : LocalIds, players : FaultRosters,
                 avatars : {BaseAvatar.name :> BaseAvatar}] : RecvJoinGame(msg)

PlayersMovedAtBase == \E msg \in [players : FaultRosters] : RecvPlayersMoved(msg)

PlayerJoinedAtBase ==
    \E msg \in [player : FaultJoiners, avatar : {BaseAvatar}] : RecvPlayerJoined(msg)

NextFaults ==
    \/ SocketOpen
    \/ SocketClose
    \/ JoinGameAtBase
    \/ JoinGameFailed
    \/ PlayersMovedAtBase
    \/ PlayerJoinedAtBase
    \/ PlayerLeft
    \/ UnparsableMessage
    \/ JoinGameMalformed
    \/ PlayersMovedMalformed
    \/ PlayerJoinedMalformed
    \/ Resize
    \/ WorldImageLoaded

SpecFaults == Init /\ [][NextFaults]_vars

\* the handling of a message that fails to parse or lacks a required field
MalformedStep ==
    \/ UnparsableMessage
    \/ JoinGameMalformed
    \/ PlayersMovedMalformed
    \/ PlayerJoinedMalformed

\* a step of SpecFaults that does not end in draw()
FaultStep == QuietStep \/ MalformedStep

\* C11  Malformed inbound messages mutate nothing: handling a message that
\* fails to parse or lacks a required field leaves the player registry, the
\* avatar registry, the local identity, the viewport, the greeted set and the
\* proximity map unchanged (and the socket open).
MalformedMutatesNothing ==
    [][MalformedStep =>
          /\ UNCHANGED <<players, avatars, playerId, viewport, greetedPlayers,
                         playerProximityState>>
          /\ socket' = "OPEN"]_vars

\* C20  Greeting lost while disconnected: a tick that runs while the socket
\* is not open and finds a not yet greeted peer going far->near calls
\* askPlayerToGreet, sets the greeted flag and the state near, and a tick that
\* finds a peer going near->far calls askPlayerToSayGoodbye and sets the state
\* far, while nothing reaches socket.send; and whatever the socket does later,
\* no step emits a Greet for a peer that is in the greeted set.
GreetingLostOffline ==
    [][/\ (~FaultStep /\ socket # "OPEN") =>
             /\ sent' = EmptyBag
             /\ \A p \in Ids :
                   /\ (FarToNear(p, playerId', players', playerProximityState)
                          /\ p \notin greetedPlayers) =>
                         /\ Greets(emitted', p) = 1
                         /\ p \in greetedPlayers'
                         /\ playerProximityState'[p] = "near"
                   /\ NearToFar(p, playerId', players', playerProximityState) =>
                         /\ Farewells(emitted', p) = 1
                         /\ playerProximityState'[p] = "far"
       /\ \A p \in greetedPlayers : Greets(emitted', p) = 0]_vars

\* on a closed socket a tick has just found p2 within the threshold for the
\* first time: the call was made, the flag and the state are set, nothing
\* was sent
GreetingLostOfflineWitness ==
    /\ socket = "CLOSED"
    /\ Greets(emitted, "p2") = 1
    /\ lifeGreets["p2"] = 1
    /\ "p2" \in greetedPlayers
    /\ playerProximityState["p2"] = "near"
    /\ sent = EmptyBag

-----------------------------------------------------------------------------
(* The avatar registry: the messages that write it, with every definition  *)
(* of AvatarSets and Avatars, for a local player at Base and p2 at distance *)
(* 80 or 150 of it.                                                          *)

AvatarJoinGameMsgs ==
    [success : {TRUE}, playerId : LocalIds, players : {"p1" :> Base}, avatars : AvatarSets]
AvatarPlayerJoinedMsgs ==
    [player : {[id |-> "p2", x |-> 2080, y |-> 1024], [id |-> "p2", x |-> 2150, y |-> 1024]},
     avatar : Avatars]

JoinGameAvatars == \E msg \in AvatarJoinGameMsgs : RecvJoinGame(msg)

PlayerJoinedAvatars == \E msg \in AvatarPlayerJoinedMsgs : RecvPlayerJoined(msg)

NextAvatars ==
    \/ SocketOpen
    \/ JoinGameAvatars
    \/ PlayerJoinedAvatars
    \/ PlayerLeft

SpecAvatars == Init /\ [][NextAvatars]_vars

\* C14  The avatar registry is immutable and additive-only: no step removes a
\* registered avatar name and no step changes the definition stored under a
\* registered name.
AvatarsImmutable ==
    [][\A n \in DOMAIN avatars :
          /\ n \in DOMAIN avatars'
          /\ avatars'[n] = avatars[n]]_vars

-----------------------------------------------------------------------------
(* The movement controller *)

ArrowKeys == {"ArrowUp", "ArrowDown", "ArrowLeft", "ArrowRight"}
\* event.code of the keyboard events: the arrows, Enter, and one key the
\* client has no binding for
KeyCodes == ArrowKeys \cup {"Enter", "KeyA"}

\* getPrimaryDirection testing ArrowLeft before ArrowDown
getPrimaryDirectionLeftFirst(keys) ==
    IF "ArrowUp" \in keys THEN "up"
    ELSE IF "ArrowLeft" \in keys THEN "left"
    ELSE IF "ArrowDown" \in keys THEN "down"
    ELSE IF "ArrowRight" \in keys THEN "right"
    ELSE "stop"

getPrimaryDirection(keys) ==
    IF "ArrowUp" \in keys THEN "up"
    ELSE IF "ArrowDown" \in keys THEN "down"
    ELSE IF "ArrowLeft" \in keys THEN "left"
    ELSE IF "ArrowRight" \in keys THEN "right"
    ELSE "stop"

\* sendMoveCommand without the readyState test
sendMoveCommandUnguarded(direction, readyState) == SetToBag({<<"move", direction>>})

\* sendMoveCommand: what reaches socket.send
sendMoveCommand(direction, readyState) ==
    IF readyState # "OPEN" THEN EmptyBag ELSE SetToBag({<<"move", direction>>})

\* sayHello
sayHello(readyState) ==
    IF readyState # "OPEN" THEN EmptyBag ELSE SetToBag({<<"chat", "Hello!">>})

\* clearInterval
ClearInterval(tm, h) == [k \in DOMAIN tm \ {h} |-> tm[k]]

\* setInterval returns a handle that is in use nowhere
NewHandle(tm, mi) == CHOOSE h \in 1..(Cardinality(DOMAIN tm) + 2) : h \notin DOMAIN tm \cup {mi}

Controller(keys, moving, mi, tm) ==
    [activeKeys |-> keys, isMoving |-> moving, movementInterval |-> mi, timers |-> tm,
     commands |-> <<>>]

\* startContinuousMovement acting only when the direction changes: a running
\* interval that already sends the primary direction is left alone
startContinuousMovementOnChange(c) ==
    LET tm1 == IF c.movementInterval # NoTimer
               THEN ClearInterval(c.timers, c.movementInterval) ELSE c.timers
        direction == getPrimaryDirection(c.activeKeys)
        h == NewHandle(tm1, c.movementInterval)
    IN  IF /\ c.movementInterval \in DOMAIN c.timers
           /\ c.timers[c.movementInterval] = direction
        THEN c
        ELSE IF direction # "stop"
        THEN [c EXCEPT !.timers = [k \in DOMAIN tm1 \cup {h} |->
                                      IF k = h THEN direction ELSE tm1[k]],
                       !.movementInterval = h,
                       !.isMoving = TRUE,
                       !.commands = <<direction>>]
        ELSE [c EXCEPT !.timers = tm1]

\* startContinuousMovement without clearInterval: the running interval stays
\* scheduled next to the new one
startContinuousMovementNoClear(c) ==
    LET direction == getPrimaryDirection(c.activeKeys)
        h == NewHandle(c.timers, c.movementInterval)
    IN  IF direction # "stop"
        THEN [c EXCEPT !.timers = [k \in DOMAIN c.timers \cup {h} |->
                                      IF k = h THEN direction ELSE c.timers[k]],
                       !.movementInterval = h,
                       !.isMoving = TRUE,
                       !.commands = <<direction>>]
        ELSE c

startContinuousMovement(c) ==
    LET tm1 == IF c.movementInterval # NoTimer
               THEN ClearInterval(c.timers, c.movementInterval) ELSE c.timers
        direction == getPrimaryDirection(c.activeKeys)
        h == NewHandle(tm1, c.movementInterval)
    IN  IF direction # "stop"
        THEN [c EXCEPT !.timers = [k \in DOMAIN tm1 \cup {h} |->
                                      IF k = h THEN direction ELSE tm1[k]],
                       !.movementInterval = h,
                       !.isMoving = TRUE,
                       !.commands = <<direction>>]
        ELSE [c EXCEPT !.timers = tm1]

\* stopContinuousMovement without clearInterval
stopContinuousMovementKeepsTimer(c) ==
    IF c.isMoving
    THEN [c EXCEPT !.commands = <<"stop">>, !.isMoving = FALSE]
    ELSE c

\* stopContinuousMovement without the isMoving test
stopContinuousMovementAlways(c) ==
    LET cleared == IF c.movementInterval # NoTimer
                   THEN [c EXCEPT !.timers = ClearInterval(c.timers, c.movementInterval),
                                  !.movementInterval = NoTimer]
                   ELSE c
    IN  [cleared EXCEPT !.commands = <<"stop">>, !.isMoving = FALSE]

stopContinuousMovement(c) ==
    LET cleared == IF c.movementInterval # NoTimer
                   THEN [c EXCEPT !.timers = ClearInterval(c.timers, c.movementInterval),
                                  !.movementInterval = NoTimer]
                   ELSE c
    IN  IF c.isMoving
        THEN [cleared EXCEPT !.commands = <<"stop">>, !.isMoving = FALSE]
        ELSE cleared

handleKeyDown(c, code) ==
    IF code \in ArrowKeys
    THEN startContinuousMovement([c EXCEPT !.activeKeys = c.activeKeys \cup {code}])
    ELSE c

\* handleKeyUp that only stops: releasing a key while others are held leaves
\* the running interval as it is
handleKeyUpStopOnly(c, code) ==
    IF code \in ArrowKeys
    THEN LET c1 == [c EXCEPT !.activeKeys = c.activeKeys \ {code}]
         IN  IF c1.activeKeys = {} THEN stopContinuousMovement(c1) ELSE c1
    ELSE c

handleKeyUp(c, code) ==
    IF code \in ArrowKeys
    THEN LET c1 == [c EXCEPT !.activeKeys = c.activeKeys \ {code}]
         IN  IF c1.activeKeys = {} THEN stopContinuousMovement(c1)
             ELSE startContinuousMovement(c1)
    ELSE c

Ctl == Controller(activeKeys, isMoving, movementInterval, timers)

RECURSIVE SentMoves(_, _)
SentMoves(cmds, readyState) ==
    IF cmds = <<>> THEN EmptyBag
    ELSE sendMoveCommand(Head(cmds), readyState) (+) SentMoves(Tail(cmds), readyState)

\* A keyboard or timer step: the controller becomes c2, chat holds what
\* sayHello sent.
InputStep(type, code, c2, chat) ==
    /\ activeKeys' = c2.activeKeys
    /\ isMoving' = c2.isMoving
    /\ movementInterval' = c2.movementInterval
    /\ timers' = c2.timers
    /\ commands' = c2.commands
    /\ sent' = SentMoves(c2.commands, socket) (+) chat
    /\ lastEvent' = [type |-> type, code |-> code]
    /\ lastDirection' = IF c2.commands = <<>> THEN lastDirection
                        ELSE c2.commands[Len(c2.commands)]
    /\ prevDirection' = lastDirection
    /\ Quiet
    /\ UNCHANGED <<worldVars, socket>>

\* the keydown listeners of setupEventListeners
KeyDown ==
    \E code \in KeyCodes :
        InputStep("keydown", code, handleKeyDown(Ctl, code),
                  IF code = "Enter" THEN sayHello(socket) ELSE EmptyBag)

\* the keyup listener
KeyUp ==
    \E code \in KeyCodes :
        InputStep("keyup", code, handleKeyUp(Ctl, code), EmptyBag)

\* a scheduled interval fires: the callback of setInterval in startContinuousMovement
TimerTick ==
    \E h \in DOMAIN timers :
        InputStep("tick", "none", [Ctl EXCEPT !.commands = <<timers[h]>>], EmptyBag)

NextInput ==
    \/ SocketOpen
    \/ SocketClose
    \/ KeyDown
    \/ KeyUp
    \/ TimerTick

SpecInput == Init /\ [][NextInput]_vars

-----------------------------------------------------------------------------
(* Properties of the proximity engine and the registry, checked under Spec *)

\* C1  Greet-once: while a peer does not depart, at most one Greet is emitted
\* for it; a tick that takes the peer from far to near emits a Greet exactly
\* when it is the first such tick since the peer arrived, a tick without such
\* a transition emits none, and once the peer has gone far->near exactly one
\* Greet has been emitted for it.
GreetOnce ==
    [][\A p \in Ids :
          /\ lifeGreets'[p] <= 1
          /\ entered'[p] => lifeGreets'[p] = 1
          /\ ~QuietStep =>
                Greets(emitted', p) =
                    IF FarToNear(p, playerId', players', playerProximityState) /\ ~entered[p]
                    THEN 1 ELSE 0]_vars

\* a peer that was greeted, left the range and is near again without a new Greet
GreetOnceWitness ==
    \E p \in DOMAIN players :
        /\ lifeGreets[p] = 1
        /\ lifeFarewells[p] >= 1
        /\ StateOf(playerProximityState, p) = "near"
        /\ Greets(emitted, p) = 0

\* C2  Farewell-per-exit: a tick that finds a peer beyond the threshold while
\* its persisted state is near emits exactly one Farewell for it and sets the
\* state to far, however many Farewells went before; any other tick emits no
\* Farewell for the peer.
FarewellPerExit ==
    [][~QuietStep =>
          \A p \in Ids :
              IF NearToFar(p, playerId', players', playerProximityState)
              THEN /\ Farewells(emitted', p) = 1
                   /\ StateOf(playerProximityState', p) = "far"
                   /\ p \in DOMAIN playerProximityState'
              ELSE Farewells(emitted', p) = 0]_vars

\* the second Farewell of one peer lifetime has just been emitted
FarewellPerExitWitness ==
    \E p \in DOMAIN players :
        /\ lifeFarewells[p] = 2
        /\ Farewells(emitted, p) = 1
        /\ p \in greetedPlayers
        /\ playerProximityState[p] = "far"

\* C3  Departure cleanup: right after player_left for id has been handled, id
\* is in none of the registry, the greeted set and the proximity map; and the
\* greeted set and the proximity map never hold an id the registry lacks.
DepartureCleanup ==
    [][/\ \A msg \in PlayerLeftMsgs :
              RecvPlayerLeft(msg) =>
                  /\ msg.playerId \notin DOMAIN players'
                  /\ msg.playerId \notin greetedPlayers'
                  /\ msg.playerId \notin DOMAIN playerProximityState'
       /\ greetedPlayers' \subseteq DOMAIN players'
       /\ DOMAIN playerProximityState' \subseteq DOMAIN players']_vars

\* player_left has just been handled for a peer that was near and greeted
DepartureCleanupWitness ==
    /\ scen = 5
    /\ ScenPeer \notin DOMAIN players
    /\ ScenPeer \notin greetedPlayers
    /\ ScenPeer \notin DOMAIN playerProximityState
    /\ ScenLocal \in DOMAIN players

\* C21  Departure is silent: the handling of player_left for an id, the
\* evaluation tick it ends with included, emits neither a Farewell nor a
\* Greet for that id, in particular when the id's proximity state is near;
\* and every Farewell a step emits is for an id the registry holds after the
\* step.
DepartureSilent ==
    [][/\ \A msg \in PlayerLeftMsgs :
              RecvPlayerLeft(msg) =>
                  /\ Farewells(emitted', msg.playerId) = 0
                  /\ Greets(emitted', msg.playerId) = 0
       /\ \A p \in Ids : Farewells(emitted', p) > 0 => p \in DOMAIN players']_vars

\* player_left has just been handled for the peer that was near at distance
\* 80, and the step emitted and sent nothing
DepartureSilentWitness ==
    /\ scen = 5
    /\ ScenPeer \notin DOMAIN players
    /\ emitted = EmptyBag
    /\ sent = EmptyBag
    /\ lifeFarewells[ScenPeer] = 0

\* C4  Rejoin re-greets: an id the registry does not hold has neither a
\* greeted flag nor a proximity state, so the step that inserts it (again)
\* emits a Greet if it arrives in range and leaves it far and not greeted
\* otherwise; and the scenario 150 -> 90 -> 120 -> 80 -> depart -> rejoin in
\* range emits Greet, Farewell, nothing, nothing, Greet.
RejoinGreets ==
    [][/\ \A p \in Ids \ DOMAIN players' :
              p \notin greetedPlayers' /\ p \notin DOMAIN playerProximityState'
       /\ \A p \in DOMAIN players' \ DOMAIN players :
              p \in PeersAtTick(playerId', players') =>
                  IF IsNear(players'[playerId'], players'[p])
                  THEN /\ Greets(emitted', p) = 1
                       /\ p \in greetedPlayers'
                       /\ playerProximityState'[p] = "near"
                  ELSE /\ Greets(emitted', p) = 0
                       /\ p \notin greetedPlayers'
                       /\ playerProximityState'[p] = "far"
       /\ scen' = 2 => scenLog' = <<"Greet">>
       /\ scen' \in {3, 4, 5} => scenLog' = <<"Greet", "Farewell">>
       /\ scen' = 6 => scenLog' = <<"Greet", "Farewell", "Greet">>]_vars

\* the whole scenario has run: the rejoined peer has been greeted a second time
RejoinGreetsWitness ==
    /\ scen = 6
    /\ scenLog = <<"Greet", "Farewell", "Greet">>
    /\ Greets(emitted, ScenPeer) = 1
    /\ lifeGreets[ScenPeer] = 1

\* C13  Unjoined suppression: while no local identity is assigned, whatever
\* players_moved, player_joined, player_left messages, failed join_game
\* answers and render ticks have been handled, no Greet or Farewell has been
\* emitted or sent, the greeted set and the proximity map are empty, and the
\* viewport origin and the local position keep their initial value.
UnjoinedSuppression ==
    playerId = NoId =>
        /\ emitted = EmptyBag
        /\ \A p \in Ids : lifeGreets[p] = 0 /\ lifeFarewells[p] = 0 /\ ~entered[p]
        /\ \A m \in BagToSet(sent) : m[1] # "chat"
        /\ greetedPlayers = {}
        /\ playerProximityState = EmptyMap
        /\ viewport = Pt(0, 0)
        /\ playerPosition = Pt(0, 0)

\* the registry holds p1 and a peer within the threshold of it, the last
\* message was handled on an open socket, and no identity is assigned
UnjoinedSuppressionWitness ==
    /\ playerId = NoId
    /\ socket = "OPEN"
    /\ {"p1", "p2", "p3"} \subseteq DOMAIN players
    /\ IsNear(players["p1"], players["p2"])
    /\ players["p1"] # Base

\* C15  Inclusive threshold: at an evaluation tick a peer at distance exactly
\* 100 of the local player (dx^2 + dy^2 = 100^2) is classified near: its state
\* becomes near, no Farewell is emitted for it, and a peer that was far and
\* not yet greeted gets its Greet; a peer at any larger distance is
\* classified far and gets no Greet; and a peer is near after the tick
\* exactly when dx^2 + dy^2 <= 100^2.
InclusiveThreshold ==
    [][~QuietStep =>
          \A p \in PeersAtTick(playerId', players') :
              LET dx == players'[playerId'].x - players'[p].x
                  dy == players'[playerId'].y - players'[p].y
                  d2 == dx * dx + dy * dy
              IN  /\ d2 = 100 * 100 =>
                        /\ playerProximityState'[p] = "near"
                        /\ Farewells(emitted', p) = 0
                        /\ (StateOf(playerProximityState, p) = "far" /\ p \notin greetedPlayers)
                               => Greets(emitted', p) = 1
                  /\ d2 > 100 * 100 =>
                        /\ playerProximityState'[p] = "far"
                        /\ Greets(emitted', p) = 0
                  /\ playerProximityState'[p] = "near" <=> d2 <= 100 * 100]_vars

\* a tick has just greeted p2 at distance exactly 100 (dx 60, dy 80) and left
\* p3, at distance 101, far
InclusiveThresholdWitness ==
    /\ playerId = "p1"
    /\ {"p1", "p2", "p3"} \subseteq DOMAIN players
    /\ players["p1"] = Base
    /\ players["p2"] = Pt(2060, 1104)
    /\ players["p3"] = Pt(2000, 1125)
    /\ Greets(emitted, "p2") = 1
    /\ playerProximityState["p2"] = "near"
    /\ playerProximityState["p3"] = "far"
    /\ Greets(emitted, "p3") = 0

\* C10  Merge idempotence: in every state, handling a players_moved message a
\* second time right after the first changes nothing in the registry, the
\* local position, the viewport, the greeted set and the proximity map, and
\* its tick emits nothing.
MergeIdempotence ==
    \A msg \in PlayersMovedMsgs :
        LET w1 == handlePlayersMoved(Now, msg, canvas, worldWidth, worldHeight)
            w2 == handlePlayersMoved([w1 EXCEPT !.emitted = EmptyBag], msg,
                                     canvas, worldWidth, worldHeight)
        IN  /\ w2.players = w1.players
            /\ w2.playerId = w1.playerId
            /\ w2.playerPosition = w1.playerPosition
            /\ w2.viewport = w1.viewport
            /\ w2.greetedPlayers = w1.greetedPlayers
            /\ w2.playerProximityState = w1.playerProximityState
            /\ w2.emitted = EmptyBag

\* a state in which some players_moved message moves the local player and a
\* peer, and its first handling emits both a Greet and a Farewell
MergeIdempotenceWitness ==
    /\ socket = "OPEN"
    /\ \E msg \in PlayersMovedMsgs :
          LET w1 == handlePlayersMoved(Now, msg, canvas, worldWidth, worldHeight)
          IN  /\ playerId \in DOMAIN msg.players
              /\ w1.viewport # viewport
              /\ \E p, q \in DOMAIN w1.players :
                     Greets(w1.emitted, p) = 1 /\ Farewells(w1.emitted, q) = 1

-----------------------------------------------------------------------------
(* Properties of the movement controller, checked under SpecInput *)

Rank(code) ==
    IF code = "ArrowUp" THEN 1 ELSE IF code = "ArrowDown" THEN 2
    ELSE IF code = "ArrowLeft" THEN 3 ELSE 4
DirectionOf(code) ==
    IF code = "ArrowUp" THEN "up" ELSE IF code = "ArrowDown" THEN "down"
    ELSE IF code = "ArrowLeft" THEN "left" ELSE "right"
\* the first held key in the order up > down > left > right
FirstHeld(keys) == DirectionOf(CHOOSE k \in keys : \A j \in keys : Rank(k) <= Rank(j))

ArrowEvent(ev) == ev.type \in {"keydown", "keyup"} /\ ev.code \in ArrowKeys

\* C5  Direction priority: the arrow-key event that leaves a non-empty held
\* set emits exactly the first held key in the order up > down > left > right,
\* every scheduled retransmission carries that direction and every timer tick
\* emits it; held {down, left} emits down, and releasing down with left still
\* held emits left.
DirectionPriority ==
    /\ (ArrowEvent(lastEvent) /\ activeKeys # {}) => commands = <<FirstHeld(activeKeys)>>
    /\ \A h \in DOMAIN timers : activeKeys # {} /\ timers[h] = FirstHeld(activeKeys)
    /\ lastEvent.type = "tick" => activeKeys # {} /\ commands = <<FirstHeld(activeKeys)>>
    /\ (ArrowEvent(lastEvent) /\ activeKeys = {"ArrowDown", "ArrowLeft"}) => commands = <<"down">>
    /\ (lastEvent = [type |-> "keyup", code |-> "ArrowDown"] /\ activeKeys = {"ArrowLeft"})
           => commands = <<"left">>

\* down has just been released with left still held, and left was emitted
DirectionPriorityWitness ==
    /\ lastEvent = [type |-> "keyup", code |-> "ArrowDown"]
    /\ activeKeys = {"ArrowLeft"}
    /\ prevDirection = "down"
    /\ commands = <<"left">>
    /\ \E h \in DOMAIN timers : timers[h] = "left"

StopOnReleaseAll ==
    [][(activeKeys # {} /\ activeKeys' = {})
          => /\ lastEvent'.type = "keyup"
             /\ commands' = <<"stop">>
             /\ timers' = EmptyMap
             /\ movementInterval' = NoTimer
             /\ ~isMoving']_vars

\* the last held key has just been released after a direction was being sent
StopOnReleaseAllWitness ==
    /\ lastEvent.type = "keyup"
    /\ lastEvent.code \in ArrowKeys
    /\ activeKeys = {}
    /\ prevDirection \in {"up", "down", "left", "right"}
    /\ commands = <<"stop">>
    /\ socket = "OPEN"
    /\ sent = SetToBag({<<"move", "stop">>})

\* C16  Single retransmission timer: in every state of the movement
\* controller at most one interval is scheduled, it is the one
\* this.movementInterval holds, one is scheduled exactly when the held-key set
\* is non-empty, and a timer tick emits exactly one command.
SingleTimer ==
    /\ Cardinality(DOMAIN timers) <= 1
    /\ DOMAIN timers # {} <=> activeKeys # {}
    /\ DOMAIN timers = IF movementInterval = NoTimer THEN {} ELSE {movementInterval}
    /\ lastEvent.type = "tick" => Len(commands) = 1

\* a key event has replaced a running interval by a new one: two keys are
\* held, the handle in use is the second one, and it alone is scheduled
SingleTimerWitness ==
    /\ Cardinality(activeKeys) = 2
    /\ ArrowEvent(lastEvent)
    /\ movementInterval = 2
    /\ DOMAIN timers = {2}

\* C18  Retransmissions are never stale: the command a timer tick emits is
\* the direction of a key held at the time of the tick, and no held key has a
\* higher priority than that key.
RetransmissionFresh ==
    [][lastEvent'.type = "tick" =>
          /\ Len(commands') = 1
          /\ \E k \in activeKeys :
                /\ DirectionOf(k) = commands'[1]
                /\ \A j \in activeKeys : Rank(k) <= Rank(j)]_vars

\* a tick on an open socket has sent left while only left and right are held
RetransmissionFreshWitness ==
    /\ lastEvent.type = "tick"
    /\ activeKeys = {"ArrowLeft", "ArrowRight"}
    /\ commands = <<"left">>
    /\ sent = SetToBag({<<"move", "left">>})

\* C19  Stop is final and never spurious: once stop is the latest command,
\* the next command is emitted by an arrow key-down (no key-up and no timer
\* tick emits anything before); a stop is emitted alone and only when the
\* latest command before it was a direction, so two stops are never
\* consecutive; and a key-up that finds no key held emits nothing.
StopIsFinal ==
    [][/\ (lastDirection = "stop" /\ commands' # <<>>) =>
             /\ lastEvent'.type = "keydown"
             /\ lastEvent'.code \in ArrowKeys
             /\ commands'[1] # "stop"
       /\ (\E i \in 1..Len(commands') : commands'[i] = "stop") =>
             /\ commands' = <<"stop">>
             /\ lastDirection \in {"up", "down", "left", "right"}
       /\ (lastEvent'.type = "keyup" /\ activeKeys = {}) => commands' = <<>>
       /\ lastEvent'.type = "tick" => lastDirection # "stop"]_vars

\* stop was the latest command when an arrow key-up arrived with no key
\* held, and that key-up emitted nothing
StopIsFinalWitness ==
    /\ lastEvent.type = "keyup"
    /\ lastEvent.code \in ArrowKeys
    /\ activeKeys = {}
    /\ prevDirection = "stop"
    /\ lastDirection = "stop"
    /\ commands = <<>>
    /\ timers = EmptyMap

\* the number of calls of sendMoveCommand(d) among cmds
RECURSIVE Calls(_, _)
Calls(cmds, d) ==
    IF cmds = <<>> THEN 0
    ELSE (IF Head(cmds) = d THEN 1 ELSE 0) + Calls(Tail(cmds), d)

JoinRequest == SetToBag({<<"join_game", "Roger">>})

\* C12  Transport unavailable: a step taken while the socket is not open
\* passes nothing to socket.send, whatever move, stop or chat command it
\* issues; the step that opens the socket sends the join request and nothing
\* else, whatever was issued before; and while the socket is open a step sends
\* exactly the commands issued in that step, so nothing issued earlier is sent
\* later.
TransportUnavailable ==
    [][/\ socket' # "OPEN" => sent' = EmptyBag
       /\ (socket # "OPEN" /\ socket' = "OPEN") => sent' = JoinRequest
       /\ (socket = "OPEN" /\ socket' = "OPEN") =>
             /\ \A m \in BagToSet(sent') : m[1] \in {"move", "chat"}
             /\ \A d \in {"up", "down", "left", "right", "stop"} :
                    CopiesIn(<<"move", d>>, sent') = Calls(commands', d)
             /\ CopiesIn(<<"chat", "Hello!">>, sent') =
                    IF lastEvent' = [type |-> "keydown", code |-> "Enter"] THEN 1 ELSE 0]_vars

\* the socket has just opened after a direction was issued while it was
\* connecting, the key is still held, and only the join request was sent
TransportUnavailableWitness ==
    /\ socket = "OPEN"
    /\ sent = JoinRequest
    /\ lastDirection \in {"up", "down", "left", "right"}
    /\ activeKeys # {}

-----------------------------------------------------------------------------
(* updateViewport as a function of its inputs, checked under SpecView *)

\* world sizes, view sizes (even) and coordinates the function is tried on;
\* 512 is a world smaller than every view
ViewWorldSizes == {WorldSize, 512}
ViewCanvasSizes == CanvasSizes \cup {[width |-> 2048, height |-> 600]}
ViewCoordinates == {-100, 0, 1024, 2048, 3000}

InitView ==
    /\ worldWidth \in ViewWorldSizes
    /\ worldHeight \in ViewWorldSizes
    /\ canvas \in ViewCanvasSizes
    /\ playerId = NoId
    /\ playerPosition \in [x : ViewCoordinates, y : ViewCoordinates]
    /\ players = EmptyMap
    /\ avatars = EmptyMap
    /\ viewport = Pt(0, 0)
    /\ socket = "CONNECTING"
    /\ activeKeys = {}
    /\ isMoving = FALSE
    /\ movementInterval = NoTimer
    /\ timers = EmptyMap
    /\ greetedPlayers = {}
    /\ playerProximityState = EmptyMap
    /\ emitted = EmptyBag
    /\ commands = <<>>
    /\ lastEvent = NoEvent
    /\ lastDirection = "none"
    /\ prevDirection = "none"
    /\ sent = EmptyBag
    /\ lifeGreets = [p \in Ids |-> 0]
    /\ lifeFarewells = [p \in Ids |-> 0]
    /\ entered = [p \in Ids |-> FALSE]
    /\ scen = 0
    /\ scenLog = <<>>

\* a call of updateViewport()
UpdateViewport ==
    /\ viewport' = updateViewport(playerPosition, canvas, worldWidth, worldHeight)
    /\ lastEvent' = [type |-> "updateViewport", code |-> "none"]
    /\ UNCHANGED <<worldWidth, worldHeight, canvas, playerId, playerPosition, players,
                   avatars, socket, inputVars, greetedPlayers, playerProximityState,
                   emitted, commands, sent, lastDirection, prevDirection, lifeVars>>

NextView == UpdateViewport

SpecView == InitView /\ [][NextView]_vars

\* clamp(v, lo, hi) with the lower bound winning when hi < lo
Clamp(v, lo, hi) == IF v < lo \/ hi < lo THEN lo ELSE IF v > hi THEN hi ELSE v

\* C8  Viewport clamp: the origin updateViewport computes is, on each axis,
\* clamp(position - view / 2, 0, world - view), which is 0 when the world is
\* smaller than the view; for a 2048 x 2048 world and an 800 x 600 view,
\* (0,0) gives (0,0), (2048,2048) gives (1248,1448), (1024,1024) gives (624,724).
ViewportClamp ==
    lastEvent.type = "updateViewport" =>
        /\ viewport.x = Clamp(playerPosition.x - canvas.width \div 2, 0,
                              worldWidth - canvas.width)
        /\ viewport.y = Clamp(playerPosition.y - canvas.height \div 2, 0,
                              worldHeight - canvas.height)
        /\ worldWidth < canvas.width => viewport.x = 0
        /\ worldHeight < canvas.height => viewport.y = 0
        /\ (worldWidth = 2048 /\ worldHeight = 2048 /\ canvas = [width |-> 800, height |-> 600]) =>
              /\ playerPosition = Pt(0, 0) => viewport = Pt(0, 0)
              /\ playerPosition = Pt(2048, 2048) => viewport = Pt(1248, 1448)
              /\ playerPosition = Pt(1024, 1024) => viewport = Pt(624, 724)

\* the function has been applied where the world is narrower than the view
\* and the player is beyond the world's far edge
ViewportClampWitness ==
    /\ lastEvent.type = "updateViewport"
    /\ worldWidth < canvas.width
    /\ worldHeight > canvas.height
    /\ playerPosition = Pt(3000, 2048)
    /\ viewport = Pt(0, worldHeight - canvas.height)

-----------------------------------------------------------------------------
(* The viewport under resizes, checked under Spec *)

\* C9  Viewport bounds: in every state the stored origin lies within
\* [0, max(0, world - view)] on both axes, for the current canvas size.
ViewportInBounds ==
    /\ 0 <= viewport.x /\ viewport.x <= Max(0, worldWidth - canvas.width)
    /\ 0 <= viewport.y /\ viewport.y <= Max(0, worldHeight - canvas.height)

\* the position the registry holds for the local player, if any
LocalEntry(pid, pl) == IF pid # NoId /\ pid \in DOMAIN pl THEN {pl[pid]} ELSE {}

\* C17  Viewport freshness: when the handling of an inbound message has
\* changed the position the registry holds for the local player, the viewport
\* origin equals the clamp computed from that position.
ViewportFresh ==
    [][(/\ canvas' = canvas
        /\ LocalEntry(playerId', players') # {}
        /\ LocalEntry(playerId', players') # LocalEntry(playerId, players))
          => viewport' = updateViewport(players'[playerId'], canvas', worldWidth', worldHeight')]_vars

====
